---- MODULE Spec2Model ----
(***************************************************************************)
(* State-machine model of tensorcircuit/applications/layers.py (generated  *)
(* double-gate appliers, gate layers, the global choice list) and of       *)
(* tensorcircuit/gates.py (the gate table and the seeded random gates).    *)
(***************************************************************************)
EXTENDS Integers, Sequences, FiniteSets, TLC

VARIABLES
  namespace,   \* layers.py: the module's attributes set by the generators
  circuit,     \* the circuit object handed to the appliers and layers
  graph,       \* the graph the caller built to hand to the layers, or none
  call,        \* the last applier or layer call: its inputs and outcome
  generated,   \* number of generator calls made after load
  lists,       \* the list objects, by location: the elements of each
  held,        \* the locations of the lists the caller has a reference to
  cset,        \* layers.py: the global _cset, the location of its list
  lastSet,     \* the last set_choice call: its argument
  got,         \* what the get_choice calls since then returned last
  listWrites,  \* number of writes of the caller into lists
  heap,        \* gates.py: the arrays, by storage location
  nodes,       \* the nodes the gate constructors returned so far
  writes,      \* number of in-place writes to returned nodes
  rngA, rngB,  \* numpy's global random state, in two runs of the program
  drawn        \* the last random-gate call made in both runs

layerVars == <<namespace, circuit, graph, call, generated>>
choiceVars == <<lists, held, cset, lastSet, got, listWrites>>
tableVars == <<heap, nodes, writes>>
randomVars == <<rngA, rngB, drawn>>
vars == <<namespace, circuit, graph, call, generated, lists, held, cset, lastSet, got,
          listWrites,
          heap, nodes, writes, rngA, rngB, drawn>>

(***************************************************************************)
(* Bounds of the model.                                                    *)
(***************************************************************************)
\* largest number of qubits of the circuit handed to the layers
MaxQubits == 3
\* a call is made on a circuit that already holds at most MaxPrefix gates
MaxPrefix == 3
\* a layer is called on a circuit that already holds at most MaxLayerPrefix gates
MaxLayerPrefix == 1
\* largest number of add_edge calls that built a supplied interaction graph
MaxEdges == 2
\* number of generate_* calls made after module load
MaxGenerated == 2

\* longest list the caller builds, or extends a list to
MaxList == 2
\* number of list objects made: by the module and by the caller
MaxLists == 3
\* number of writes of the caller into lists
MaxListWrites == 2
\* number of nodes requested from the gate constructors
MaxNodes == 2
\* number of in-place writes to the matrices of returned nodes
MaxWrites == 2
\* largest seed handed to the random gates
MaxSeed == 2
\* number of states the random source may be in before the first call
RngStarts == 3
\* number of draws made from the source since it was last seeded or started
MaxDraws == 3

\* rotation angles / symbols handed to the appliers and layers
Symbols == {-1, 1}
\* explicit edge weights of a supplied graph
Weights == {2}

(***************************************************************************)
(* Values.                                                                 *)
(***************************************************************************)
\* the Python value None given (or defaulted) for `symbol`
NoneSym == [isnone |-> TRUE, v |-> 0]
Num(v) == [isnone |-> FALSE, v |-> v]

\* a rotation parameter: none, a plain number, or a multiple of pi/2
NoTheta == [unit |-> "none", n |-> 0]
Rad(v) == [unit |-> "rad", n |-> v]
HalfPi(k) == [unit |-> "pi/2", n |-> k]

\* the basis labels the module loops over at load (layers.py:95)
Basis == {"x", "y", "z"}
BasisPairs == {<<a, b>> : a \in Basis, b \in Basis}

\* Circuit.<name>(*qubits, theta=...): the external circuit object records
\* the gate application at the end of its gate list
CircuitApply(ops, name, qubits, theta) ==
  Append(ops, [gate |-> name, qubits |-> qubits, theta |-> theta])

\* Circuit.sgates: the names of the fixed (parameterless) gates, which are
\* the lower-case names of the gate table of gates.py
sgates == {"i", "x", "y", "z", "h", "cnot", "cz", "swap"}

\* str.lower() on the gate names the model feeds to generate_gate_layer
Lower(s) ==
  CASE s = "H" -> "h"
    [] s = "X" -> "x"
    [] OTHER -> s

(***************************************************************************)
(* generate_double_gate: the applier f and its registration.               *)
(***************************************************************************)
\* layers.py:25-28 (qubit1) and 29-32 (qubit2): the basis change before
BasisChangeIn(ops, d, q) ==
  IF d = "x" THEN CircuitApply(ops, "H", <<q>>, NoTheta)
  ELSE IF d = "y" THEN CircuitApply(ops, "rx", <<q>>, HalfPi(-1))
  ELSE ops

\* a faulty variant of BasisChangeOut: the rotation back has the sign of the one before
BasisChangeOutSameSign(ops, d, q) ==
  IF d = "x" THEN CircuitApply(ops, "H", <<q>>, NoTheta)
  ELSE IF d = "y" THEN CircuitApply(ops, "rx", <<q>>, HalfPi(-1))
  ELSE ops

\* layers.py:36-39 (qubit1) and 40-43 (qubit2): the basis change after
BasisChangeOut(ops, d, q) ==
  IF d = "x" THEN CircuitApply(ops, "H", <<q>>, NoTheta)
  ELSE IF d = "y" THEN CircuitApply(ops, "rx", <<q>>, HalfPi(1))
  ELSE ops

\* a faulty variant of CnotSandwich: the second CNOT is left out
CnotSandwichOpen(ops, q1, q2, theta) ==
  LET a == CircuitApply(ops, "CNOT", <<q1, q2>>, NoTheta)
  IN CircuitApply(a, "rz", <<q2>>, theta)

\* layers.py:33-35: CNOT, rz on qubit2, CNOT
CnotSandwich(ops, q1, q2, theta) ==
  LET a == CircuitApply(ops, "CNOT", <<q1, q2>>, NoTheta)
      b == CircuitApply(a, "rz", <<q2>>, theta)
  IN CircuitApply(b, "CNOT", <<q1, q2>>, NoTheta)

\* the body of f(circuit, qubit1, qubit2, symbol): the gate list afterwards
DoubleGateF(gates, ops, q1, q2, theta) ==
  LET d1 == gates[1]
      d2 == gates[2]
      s1 == BasisChangeIn(ops, d1, q1)
      s2 == BasisChangeIn(s1, d2, q2)
      s3 == CnotSandwich(s2, q1, q2, theta)
      s4 == BasisChangeOut(s3, d1, q1)
  IN BasisChangeOut(s4, d2, q2)

GateName(gates) == gates[1] \o gates[2] \o "gate"
DoubleLayerName(gates) == gates[1] \o gates[2] \o "layer"
LayerName(gate) == gate \o "layer"

\* setattr(thismodule, name, f)
SetAttr(ns, name, entry) ==
  [k \in (DOMAIN ns) \cup {name} |-> IF k = name THEN entry ELSE ns[k]]

\* generate_double_gate(gates): layers.py:46-47 registers f as <gates>gate
GenerateDoubleGateF(ns, gates) ==
  SetAttr(ns, GateName(gates), [kind |-> "gate", gates |-> gates])

(***************************************************************************)
(* generate_gate_layer: the layer f, its trainable flag, its registration. *)
(***************************************************************************)
\* the methods the external circuit object offers: every fixed gate under
\* its lower-case and its upper-case name, and the rotations
CircuitMethods ==
  sgates \cup {"I", "X", "Y", "Z", "H", "CNOT", "CZ", "SWAP"} \cup {"rx", "ry", "rz"}

\* layers.py:61: the branch f takes when called
TakesFixedBranch(gate) == Lower(gate) \in sgates

\* layers.py:62-63: for n in range(circuit._nqubits): getattr(circuit, gate)(n)
RECURSIVE FixedLoop(_, _, _, _)
FixedLoop(ops, gate, n, nqubits) ==
  IF n >= nqubits THEN ops
  ELSE FixedLoop(CircuitApply(ops, gate, <<n>>, NoTheta), gate, n + 1, nqubits)

\* a faulty variant of RotationLoop: theta = symbol
RECURSIVE RotationLoopPlain(_, _, _, _, _)
RotationLoopPlain(ops, gate, n, nqubits, symbol) ==
  IF n >= nqubits THEN ops
  ELSE RotationLoopPlain(CircuitApply(ops, gate, <<n>>, Rad(symbol.v)),
                         gate, n + 1, nqubits, symbol)

\* layers.py:65-66: ... getattr(circuit, gate)(n, theta=2 * symbol)
RECURSIVE RotationLoop(_, _, _, _, _)
RotationLoop(ops, gate, n, nqubits, symbol) ==
  IF n >= nqubits THEN ops
  ELSE RotationLoop(CircuitApply(ops, gate, <<n>>, Rad(2 * symbol.v)),
                    gate, n + 1, nqubits, symbol)

\* what the call raises, if anything: the attribute lookup of an unknown
\* gate method, or 2 * None, both in the first pass of the loop
GateLayerRaises(gate, nqubits, symbol) ==
  IF nqubits = 0 THEN "none"
  ELSE IF gate \notin CircuitMethods THEN "AttributeError"
  ELSE IF ~TakesFixedBranch(gate) /\ symbol.isnone THEN "TypeError"
  ELSE "none"

\* the body of f(circuit, symbol, g) of generate_gate_layer: g is not read
GateLayerF(gate, ops, nqubits, symbol) ==
  IF GateLayerRaises(gate, nqubits, symbol) # "none" THEN ops
  ELSE IF TakesFixedBranch(gate) THEN FixedLoop(ops, gate, 0, nqubits)
  ELSE RotationLoop(ops, gate, 0, nqubits, symbol)

\* layers.py:71: f.__trainable__ = False if gate in Circuit.sgates else True
TrainableFlag(gate) == IF gate \in sgates THEN FALSE ELSE TRUE

\* generate_gate_layer(gate): layers.py:69-72
GenerateGateLayerF(ns, gate) ==
  SetAttr(ns, LayerName(gate),
          [kind |-> "glayer", gate |-> gate, trainable |-> TrainableFlag(gate)])

(***************************************************************************)
(* generate_double_gate_layer: the layer f and its registration.           *)
(***************************************************************************)
GNone == [isnone |-> TRUE, edges |-> <<>>]
Graph(edges) == [isnone |-> FALSE, edges |-> edges]
Edge(u, v) == [u |-> u, v |-> v, hasw |-> FALSE, w |-> 0]
WEdge(u, v, w) == [u |-> u, v |-> v, hasw |-> TRUE, w |-> w]

\* nx.complete_graph(n).edges: the pairs u < v in lexicographic order
RECURSIVE CompleteGraphEdges(_, _, _)
CompleteGraphEdges(n, u, v) ==
  IF u >= n - 1 THEN <<>>
  ELSE IF v >= n THEN CompleteGraphEdges(n, u + 1, u + 2)
  ELSE <<Edge(u, v)>> \o CompleteGraphEdges(n, u, v + 1)

\* layers.py:77-78
EdgesOf(g, nqubits) ==
  IF g.isnone THEN CompleteGraphEdges(nqubits, 0, 1) ELSE g.edges

\* g[e[0]][e[1]].get("weight", 1.0)
EdgeWeight(e) == IF e.hasw THEN e.w ELSE 1

\* a faulty variant of EdgeAngle: the factor 2 is left out
EdgeAngleSingle(symbol, e) == (-symbol.v) * EdgeWeight(e)

\* layers.py:82: -symbol * weight * 2
EdgeAngle(symbol, e) == ((-symbol.v) * EdgeWeight(e)) * 2

\* layers.py:79-83: one applier call per edge, in iteration order; the
\* applier is looked up by name in the namespace at each call
RECURSIVE EdgeLoop(_, _, _, _, _, _)
EdgeLoop(ns, gates, ops, edges, i, symbol) ==
  IF i > Len(edges) THEN ops
  ELSE EdgeLoop(ns, gates,
                DoubleGateF(ns[GateName(gates)].gates, ops, edges[i].u,
                            edges[i].v, Rad(EdgeAngle(symbol, edges[i]))),
                edges, i + 1, symbol)

\* getattr(thismodule, gates + "gate") fails when no such applier exists
DoubleLayerRaises(ns, gates, edges) ==
  IF Len(edges) = 0 THEN "none"
  ELSE IF GateName(gates) \notin DOMAIN ns THEN "AttributeError"
  ELSE "none"

\* the body of f(circuit, symbol, g) of generate_double_gate_layer
DoubleLayerF(ns, gates, ops, nqubits, symbol, g) ==
  IF DoubleLayerRaises(ns, gates, EdgesOf(g, nqubits)) # "none" THEN ops
  ELSE EdgeLoop(ns, gates, ops, EdgesOf(g, nqubits), 1, symbol)

\* generate_double_gate_layer(gates): layers.py:86-89
GenerateDoubleGateLayerF(ns, gates) ==
  SetAttr(ns, DoubleLayerName(gates),
          [kind |-> "dlayer", gates |-> gates, trainable |-> TRUE])

(***************************************************************************)
(* Module load: layers.py:92-98.                                           *)
(***************************************************************************)
RECURSIVE LoadGateLayers(_, _)
LoadGateLayers(ns, todo) ==
  IF todo = <<>> THEN ns
  ELSE LoadGateLayers(GenerateGateLayerF(ns, Head(todo)), Tail(todo))

\* itertools.product(["x","y","z"], ["x","y","z"]) in its order
LoadPairs ==
  << <<"x","x">>, <<"x","y">>, <<"x","z">>, <<"y","x">>, <<"y","y">>,
     <<"y","z">>, <<"z","x">>, <<"z","y">>, <<"z","z">> >>

RECURSIVE LoadDouble(_, _)
LoadDouble(ns, todo) ==
  IF todo = <<>> THEN ns
  ELSE LoadDouble(GenerateDoubleGateLayerF(GenerateDoubleGateF(ns, Head(todo)),
                                           Head(todo)), Tail(todo))

EmptyNamespace == [k \in {} |-> [kind |-> "none"]]

LoadedNamespace ==
  LoadDouble(LoadGateLayers(EmptyNamespace, <<"rx", "ry", "rz", "H">>), LoadPairs)

(***************************************************************************)
(* Inputs of the calls.                                                    *)
(***************************************************************************)
Qubits == 0..(circuit.nqubits - 1)

\* the arguments of one g.add_edge(u, v) or g.add_edge(u, v, weight=w) call
\* on the qubit indices, in either orientation, self-loops included
EdgeOptions(n) ==
  {Edge(u, v) : u \in 0..(n-1), v \in 0..(n-1)}
    \cup {WEdge(u, v, w) : u \in 0..(n-1), v \in 0..(n-1), w \in Weights}

InSeq(x, seq) == \E i \in 1..Len(seq) : seq[i] = x
AppendNew(seq, x) == IF InSeq(x, seq) THEN seq ELSE Append(seq, x)

\* the nodes of the graph built by the add_edge calls, in the order the
\* calls first named them
RECURSIVE NodeOrder(_, _, _)
NodeOrder(adds, i, seen) ==
  IF i > Len(adds) THEN seen
  ELSE NodeOrder(adds, i + 1, AppendNew(AppendNew(seen, adds[i].u), adds[i].v))

\* the neighbours of node x, in the order the calls first joined them to x
RECURSIVE Neighbours(_, _, _, _)
Neighbours(adds, x, i, nbrs) ==
  IF i > Len(adds) THEN nbrs
  ELSE LET a == adds[i]
           n1 == IF a.u = x THEN AppendNew(nbrs, a.v) ELSE nbrs
           n2 == IF a.v = x THEN AppendNew(n1, a.u) ELSE n1
       IN Neighbours(adds, x, i + 1, n2)

\* the edge (x, y) with the attributes the graph holds for it: a weight is
\* the one the last call that gave a weight for this edge set
RECURSIVE EdgeAttr(_, _, _, _, _)
EdgeAttr(adds, x, y, i, e) ==
  IF i > Len(adds) THEN e
  ELSE LET a == adds[i]
           joins == (a.u = x /\ a.v = y) \/ (a.u = y /\ a.v = x)
       IN EdgeAttr(adds, x, y, i + 1,
                   IF joins /\ a.hasw THEN WEdge(x, y, a.w) ELSE e)

\* g.edges of an nx.Graph: node by node in node order, each node's
\* neighbours in their order, an edge to a node already passed left out
RECURSIVE EdgeView(_, _, _)
EdgeView(adds, nodeseq, k) ==
  IF k > Len(nodeseq) THEN <<>>
  ELSE LET x == nodeseq[k]
           passed == {nodeseq[j] : j \in 1..(k - 1)}
           nbrs == SelectSeq(Neighbours(adds, x, 1, <<>>), LAMBDA y : y \notin passed)
       IN [j \in 1..Len(nbrs) |-> EdgeAttr(adds, x, nbrs[j], 1, Edge(x, nbrs[j]))]
            \o EdgeView(adds, nodeseq, k + 1)

\* the graph built by a sequence of add_edge calls
GraphOf(adds) == Graph(EdgeView(adds, NodeOrder(adds, 1, <<>>), 1))

\* the graphs handed to a two-qubit layer on n qubits: none, or a graph
\* built by at most MaxEdges add_edge calls
GraphFamily ==
  [n \in 1..MaxQubits |->
     {GNone} \cup
     {GraphOf(adds) : adds \in UNION {[1..m -> EdgeOptions(n)] : m \in 0..MaxEdges}}]
GraphInputs(n) == GraphFamily[n]

SymbolInputs == {NoneSym} \cup {Num(v) : v \in Symbols}

\* labels handed to the generators after load: the basis and a foreign one
GenChars == Basis \cup {"a"}
GenPairs == {<<a, b>> : a \in GenChars, b \in GenChars}
GenGates == {"rx", "rz", "H", "h", "X", "u"}

\* the circuit the caller hands in: fresh, or with a gate already applied
PreCircuits == {<<>>, CircuitApply(<<>>, "x", <<0>>, NoTheta)}

NoCall ==
  [fn |-> "none", q1 |-> 0, q2 |-> 0, symbol |-> NoneSym, g |-> GNone,
   pre |-> <<>>, ret |-> 0, raised |-> "none"]

\* layers.py:92-98: the module's attributes after load
LoadInit ==
  /\ namespace = LoadedNamespace
  /\ call = NoCall
  /\ generated = 0

\* the caller made a circuit of 1..MaxQubits qubits to hand to the layers
CircuitInit ==
  \E n \in 1..MaxQubits, ops \in PreCircuits :
    circuit = [id |-> 1, nqubits |-> n, ops |-> ops]

\* the caller made no circuit
NoCircuit == circuit = [id |-> 0, nqubits |-> 0, ops |-> <<>>]

\* the caller built a graph on the qubit indices of its circuit, or none
GraphInit == graph \in GraphInputs(circuit.nqubits)

\* the caller built no graph
NoGraph == graph = GNone

\* a call of a registered <d1><d2>gate on the circuit
CallDoubleGate(name, q1, q2, a) ==
  /\ name \in DOMAIN namespace
  /\ namespace[name].kind = "gate"
  /\ Len(circuit.ops) <= MaxPrefix
  /\ q1 # q2
  /\ circuit' = [circuit EXCEPT
                   !.ops = DoubleGateF(namespace[name].gates, @, q1, q2, Rad(a))]
  /\ call' = [NoCall EXCEPT !.fn = name, !.q1 = q1, !.q2 = q2,
                !.symbol = Num(a), !.pre = circuit.ops, !.ret = circuit.id]
  /\ UNCHANGED <<namespace, graph, generated, choiceVars, tableVars, randomVars>>

\* a call of a registered single-qubit <gate>layer on the circuit
CallGateLayer(name, symbol, g) ==
  /\ name \in DOMAIN namespace
  /\ namespace[name].kind = "glayer"
  /\ Len(circuit.ops) <= MaxLayerPrefix
  /\ LET gate == namespace[name].gate
         raised == GateLayerRaises(gate, circuit.nqubits, symbol)
     IN /\ circuit' = [circuit EXCEPT
                         !.ops = GateLayerF(gate, @, circuit.nqubits, symbol)]
        /\ call' = [NoCall EXCEPT !.fn = name, !.symbol = symbol, !.g = g,
                      !.pre = circuit.ops, !.raised = raised,
                      !.ret = IF raised = "none" THEN circuit.id ELSE 0]
  /\ UNCHANGED <<namespace, graph, generated, choiceVars, tableVars, randomVars>>

\* a call of a registered two-qubit <d1><d2>layer on the circuit
CallDoubleLayer(name, symbol, g) ==
  /\ name \in DOMAIN namespace
  /\ namespace[name].kind = "dlayer"
  /\ Len(circuit.ops) <= MaxLayerPrefix
  /\ LET gates == namespace[name].gates
         raised == DoubleLayerRaises(namespace, gates, EdgesOf(g, circuit.nqubits))
     IN /\ circuit' = [circuit EXCEPT
                         !.ops = DoubleLayerF(namespace, gates, @, circuit.nqubits,
                                              symbol, g)]
        /\ call' = [NoCall EXCEPT !.fn = name, !.symbol = symbol, !.g = g,
                      !.pre = circuit.ops, !.raised = raised,
                      !.ret = IF raised = "none" THEN circuit.id ELSE 0]
  /\ UNCHANGED <<namespace, graph, generated, choiceVars, tableVars, randomVars>>

\* generate_double_gate(gates), called after load
GenerateDoubleGate(gates) ==
  /\ generated < MaxGenerated
  /\ namespace' = GenerateDoubleGateF(namespace, gates)
  /\ generated' = generated + 1
  /\ UNCHANGED <<circuit, graph, call, choiceVars, tableVars, randomVars>>

\* generate_gate_layer(gate), called after load
GenerateGateLayer(gate) ==
  /\ generated < MaxGenerated
  /\ namespace' = GenerateGateLayerF(namespace, gate)
  /\ generated' = generated + 1
  /\ UNCHANGED <<circuit, graph, call, choiceVars, tableVars, randomVars>>

\* generate_double_gate_layer(gates), called after load
GenerateDoubleGateLayer(gates) ==
  /\ generated < MaxGenerated
  /\ namespace' = GenerateDoubleGateLayerF(namespace, gates)
  /\ generated' = generated + 1
  /\ UNCHANGED <<circuit, graph, call, choiceVars, tableVars, randomVars>>

(***************************************************************************)
(* The global choice list: layers.py:100-120.                              *)
(***************************************************************************)
\* the argument of set_choice: None (also the default), or a list, here
\* by value
NoneList == [isnone |-> TRUE, l |-> <<>>]
List(l) == [isnone |-> FALSE, l |-> l]

\* the argument of set_choice as passed: None, or a reference to a list
NoneRef == [isnone |-> TRUE, ref |-> 0]
Ref(loc) == [isnone |-> FALSE, ref |-> loc]
ArgValue(a, ls) == IF a.isnone THEN NoneList ELSE List(ls[a.ref])

\* layers.py:110: `not l` holds of None and of the empty list
NotL(arg) == arg.isnone \/ Len(arg.l) = 0

\* a faulty variant of DefaultChoice: the rotation layers are rx, ry
DefaultChoiceRy ==
  <<LayerName("H"), LayerName("rx"), LayerName("ry"), DoubleLayerName(<<"z", "z">>)>>

\* layers.py:111: [Hlayer, rxlayer, rzlayer, zzlayer], by registered name
DefaultChoice ==
  <<LayerName("H"), LayerName("rx"), LayerName("rz"), DoubleLayerName(<<"z", "z">>)>>

\* layers.py:110-113: the elements of _cset after set_choice(arg)
SetChoiceF(arg) == IF NotL(arg) THEN DefaultChoice ELSE arg.l

\* layers.py:120: get_choice returns _cset itself
GetChoiceF(cs) == cs

\* the elements of the lists the caller builds and of what it appends: a
\* name that is no layer (set_choice validates nothing)
ChoiceElems == {"xxgate"}
ListInputs == UNION {[1..m -> ChoiceElems] : m \in 0..MaxList}
ArgInputs == {NoneRef} \cup {Ref(loc) : loc \in held}

NotGot == [valid |-> FALSE, ref |-> 0]

\* layers.py:100 and 116: _cset = [] and then set_choice() at load; the
\* empty list of line 100 is dropped, the list of line 111 is at location 1
ChoiceInit ==
  /\ lists = <<SetChoiceF(NoneList)>>
  /\ held = {}
  /\ cset = 1
  /\ lastSet = [arg |-> NoneRef, atload |-> TRUE, prelen |-> 0, written |-> FALSE]
  /\ listWrites = 0
  /\ got = NotGot

\* the caller builds a list l
NewList(l) ==
  /\ Len(lists) < MaxLists
  /\ lists' = Append(lists, l)
  /\ held' = held \cup {Len(lists) + 1}
  /\ UNCHANGED <<cset, lastSet, got, listWrites, layerVars, tableVars, randomVars>>

\* layers.py:103-113: line 111 makes a new list, line 113 stores the
\* caller's list itself
set_choice(a) ==
  /\ IF NotL(ArgValue(a, lists))
       THEN /\ Len(lists) < MaxLists
            /\ lists' = Append(lists, SetChoiceF(ArgValue(a, lists)))
            /\ cset' = Len(lists) + 1
       ELSE /\ lists' = lists
            /\ cset' = a.ref
  /\ lastSet' = [arg |-> a, atload |-> FALSE, prelen |-> Len(lists[cset]),
                 written |-> FALSE]
  /\ got' = NotGot
  /\ UNCHANGED <<held, listWrites, layerVars, tableVars, randomVars>>

\* layers.py:119-120: the caller is handed the list _cset refers to
get_choice ==
  /\ got' = [valid |-> TRUE, ref |-> GetChoiceF(cset)]
  /\ held' = held \cup {GetChoiceF(cset)}
  /\ UNCHANGED <<lists, cset, lastSet, listWrites, layerVars, tableVars, randomVars>>

\* the caller appends to a list it has a reference to
ListAppend(loc, e) ==
  /\ loc \in held
  /\ listWrites < MaxListWrites
  /\ listWrites' = listWrites + 1
  /\ Len(lists[loc]) < MaxList
  /\ lists' = [lists EXCEPT ![loc] = Append(@, e)]
  /\ lastSet' = [lastSet EXCEPT !.written = TRUE]
  /\ UNCHANGED <<held, cset, got, layerVars, tableVars, randomVars>>

\* the caller pops the last element of a list it has a reference to
ListPop(loc) ==
  /\ loc \in held
  /\ listWrites < MaxListWrites
  /\ listWrites' = listWrites + 1
  /\ Len(lists[loc]) > 0
  /\ lists' = [lists EXCEPT ![loc] = SubSeq(@, 1, Len(@) - 1)]
  /\ lastSet' = [lastSet EXCEPT !.written = TRUE]
  /\ UNCHANGED <<held, cset, got, layerVars, tableVars, randomVars>>

(***************************************************************************)
(* The gate table: gates.py:24-73.                                         *)
(***************************************************************************)
Array(shape, dtype, data) == [shape |-> shape, dtype |-> dtype, data |-> data]

\* gates.py:24-53: the literal arrays; "r" stands for 1/sqrt(2)
h_matrix == Array(<<2, 2>>, "float64", <<"r", "r", "r", "-r">>)
i_matrix == Array(<<2, 2>>, "float64", <<"1", "0", "0", "1">>)
x_matrix == Array(<<2, 2>>, "float64", <<"0", "1", "1", "0">>)
y_matrix == Array(<<2, 2>>, "complex128", <<"0", "-i", "i", "0">>)
z_matrix == Array(<<2, 2>>, "float64", <<"1", "0", "0", "-1">>)
cnot_matrix ==
  Array(<<4, 4>>, "float64", <<"1", "0", "0", "0", "0", "1", "0", "0",
                               "0", "0", "0", "1", "0", "0", "1", "0">>)
cz_matrix ==
  Array(<<4, 4>>, "float64", <<"1", "0", "0", "0", "0", "1", "0", "0",
                               "0", "0", "1", "0", "0", "0", "0", "-1">>)
swap_matrix ==
  Array(<<4, 4>>, "float64", <<"1", "0", "0", "0", "0", "0", "1", "0",
                               "0", "1", "0", "0", "0", "0", "0", "1">>)

\* gates.py:61-63: the names n of the _<n>_matrix attributes, in dir() order
GateNames == <<"cnot", "cz", "h", "i", "swap", "x", "y", "z">>

\* gates.py:64: getattr(thismodule, name)
LiteralOf(n) ==
  CASE n = "cnot" -> cnot_matrix
    [] n = "cz" -> cz_matrix
    [] n = "h" -> h_matrix
    [] n = "i" -> i_matrix
    [] n = "swap" -> swap_matrix
    [] n = "x" -> x_matrix
    [] n = "y" -> y_matrix
    [] n = "z" -> z_matrix

\* gates.py:65-66: a 4x4 array is reshaped to (2, 2, 2, 2)
Reshape(m) == IF m.shape[1] = 4 THEN [m EXCEPT !.shape = <<2, 2, 2, 2>>] ELSE m

\* gates.py:67: m.astype(npdtype), a new array of the fixed dtype
AsType(m) == [m EXCEPT !.dtype = "npdtype"]

\* gates.py:64-67: the array meta_gate binds into the constructor of n
BoundMatrix(n) == AsType(Reshape(LiteralOf(n)))

\* the storage of the array bound into the constructor of GateNames[k] is
\* location k; the arrays of returned nodes follow
TableLocs == 1..Len(GateNames)
NodeLoc(j) == Len(GateNames) + j

\* gates.py:69-70: both n + "gate" and n name the same constructor
GateOf(attr) ==
  CHOOSE k \in TableLocs : attr = GateNames[k] \/ attr = GateNames[k] \o "gate"
Constructors ==
  {GateNames[k] : k \in TableLocs} \cup {GateNames[k] \o "gate" : k \in TableLocs}

\* copy.deepcopy(m): an equal array
DeepCopy(m) == m

\* a faulty variant of Template: tn.Node(m, name=n), the node wraps the bound array
TemplateNoCopy(mloc, fresh, n, hp) ==
  [name |-> n, loc |-> mloc, returned |-> hp[mloc]]

\* gates.py:56-57: template(m, n) returns tn.Node(deepcopy(m), name=n); the
\* node's tensor lives in the fresh storage of the copy
Template(mloc, fresh, n, hp) ==
  [name |-> n, loc |-> fresh, returned |-> DeepCopy(hp[mloc])]

\* the arrays after template ran: the copy is stored at the fresh location
TemplateHeap(mloc, fresh, hp) ==
  [l \in (DOMAIN hp) \cup {fresh} |-> IF l = fresh THEN DeepCopy(hp[mloc]) ELSE hp[l]]

\* gates.py:73: the arrays after meta_gate() ran at load
TableInit ==
  /\ heap = [k \in TableLocs |-> BoundMatrix(GateNames[k])]
  /\ nodes = <<>>
  /\ writes = 0

\* a call of a gate constructor, <n>() or <n>gate()
CallGate(attr) ==
  /\ Len(nodes) < MaxNodes
  /\ LET k == GateOf(attr)
         fresh == NodeLoc(Len(nodes) + 1)
     IN /\ nodes' = Append(nodes, Template(k, fresh, GateNames[k], heap))
        /\ heap' = TemplateHeap(k, fresh, heap)
  /\ UNCHANGED <<writes, layerVars, choiceVars, randomVars>>

\* the entries a write touches: the first and the last of the array
WritePositions(m) == {1, Len(m.data)}
WriteValues == {"7"}

\* the caller writes into the matrix of a node it was handed
WriteNode(j, pos, val) ==
  /\ writes < MaxWrites
  /\ j \in 1..Len(nodes)
  /\ pos \in WritePositions(heap[nodes[j].loc])
  /\ heap' = [heap EXCEPT ![nodes[j].loc].data[pos] = val]
  /\ writes' = writes + 1
  /\ UNCHANGED <<nodes, layerVars, choiceVars, randomVars>>

(***************************************************************************)
(* The random gates: gates.py:76-114.                                      *)
(***************************************************************************)
\* the seed argument: None (also the default), or an integer
NoSeed == [isnone |-> TRUE, v |-> 0]
Seed(v) == [isnone |-> FALSE, v |-> v]
SeedInputs == {NoSeed} \cup {Seed(v) : v \in 0..MaxSeed}
AngleScales == {1, 2}

\* a state of the source: where it started (a state before the first call,
\* or the one a seed sets) and the draws made from it since, by the call that
\* drew; a source never comes back to a state it left
Started(k) == [seeded |-> FALSE, id |-> k, draws |-> <<>>]

\* np.random.seed(s): the state of the source is a function of s alone
SeedState(s) == [seeded |-> TRUE, id |-> s, draws |-> <<>>]

\* one drawing call on the source (np.random.rand(3), or
\* unitary_group.rvs(dim=4)): the state after it
Advance(r, draw) == [r EXCEPT !.draws = Append(@, draw)]

\* gates.py:84 and 110: `if seed:` holds of an integer other than 0
IfSeed(seed) == ~seed.isnone /\ seed.v # 0

\* gates.py:84-85 and 110-111
MaybeSeed(seed, r) == IF IfSeed(seed) THEN SeedState(seed.v) ELSE r

\* gates.py:88-98: rgate draws theta, alpha, phi in one call of rand(3);
\* the unitary is a function of what the source gives in the state it is
\* in, and of angle_scale
rgate(seed, scale, r) ==
  LET r0 == MaybeSeed(seed, r)
  IN [node |-> [name |-> "__unnamed_node__", drawnAt |-> r0, scale |-> scale],
      rng |-> Advance(r0, "rand")]

\* gates.py:110-114: random_two_qubit_gate draws the unitary from the source
random_two_qubit_gate(seed, r) ==
  LET r0 == MaybeSeed(seed, r)
  IN [node |-> [name |-> "R2Q", drawnAt |-> r0, scale |-> 1],
      rng |-> Advance(r0, "rvs")]

\* the source has draws left within the bound, once seeded as the call asks
CanDraw(seed, r) == Len(MaybeSeed(seed, r).draws) < MaxDraws

NoNode == [name |-> "none", drawnAt |-> Started(0), scale |-> 1]
NoDraw == [fn |-> "none", seed |-> NoSeed, a |-> NoNode, b |-> NoNode]

\* the random gates are not called
RandomIdle ==
  /\ rngA = Started(1)
  /\ rngB = Started(1)
  /\ drawn = NoDraw

\* two runs of the program, whose sources are in any two states
RandomInit ==
  /\ rngA \in {Started(k) : k \in 1..RngStarts}
  /\ rngB \in {Started(k) : k \in 1..RngStarts}
  /\ drawn = NoDraw

\* rgate(seed, angle_scale) called in both runs
CallRgate(seed, scale) ==
  /\ CanDraw(seed, rngA) /\ CanDraw(seed, rngB)
  /\ rngA' = rgate(seed, scale, rngA).rng
  /\ rngB' = rgate(seed, scale, rngB).rng
  /\ drawn' = [fn |-> "rgate", seed |-> seed,
               a |-> rgate(seed, scale, rngA).node,
               b |-> rgate(seed, scale, rngB).node]
  /\ UNCHANGED <<layerVars, choiceVars, tableVars>>

\* random_two_qubit_gate(seed) called in both runs
CallRandomTwoQubitGate(seed) ==
  /\ CanDraw(seed, rngA) /\ CanDraw(seed, rngB)
  /\ rngA' = random_two_qubit_gate(seed, rngA).rng
  /\ rngB' = random_two_qubit_gate(seed, rngB).rng
  /\ drawn' = [fn |-> "random_two_qubit_gate", seed |-> seed,
               a |-> random_two_qubit_gate(seed, rngA).node,
               b |-> random_two_qubit_gate(seed, rngB).node]
  /\ UNCHANGED <<layerVars, choiceVars, tableVars>>

\* the modules as loaded
Loaded == LoadInit /\ ChoiceInit /\ TableInit

Init == Loaded /\ CircuitInit /\ NoGraph /\ RandomIdle
InitLayer == Loaded /\ CircuitInit /\ GraphInit /\ RandomIdle
InitModule == Loaded /\ NoCircuit /\ NoGraph /\ RandomIdle
InitRandom == Loaded /\ NoCircuit /\ NoGraph /\ RandomInit

Named(kind) == {k \in DOMAIN namespace : namespace[k].kind = kind}
Generated(kind) == Named(kind) \ DOMAIN LoadedNamespace

\* the bound on the circuit handed to a call, checked before the inputs
\* are drawn
GateCalls ==
  /\ Len(circuit.ops) <= MaxPrefix
  /\ \E name \in Named("gate"), a \in Symbols :
       \E q1, q2 \in Qubits : CallDoubleGate(name, q1, q2, a)

GateLayerCalls ==
  /\ Len(circuit.ops) <= MaxLayerPrefix
  /\ \E name \in Named("glayer"), s \in SymbolInputs : CallGateLayer(name, s, graph)

DoubleLayerCalls ==
  /\ Len(circuit.ops) <= MaxLayerPrefix
  /\ \E name \in Named("dlayer"), a \in Symbols : CallDoubleLayer(name, Num(a), graph)

Generates ==
  \/ \E gates \in GenPairs : GenerateDoubleGate(gates)
  \/ \E gate \in GenGates : GenerateGateLayer(gate)
  \/ \E gates \in GenPairs : GenerateDoubleGateLayer(gates)

\* calls of what the generators registered after load
GeneratedGateCalls ==
  /\ Len(circuit.ops) <= MaxPrefix
  /\ \E name \in Generated("gate"), a \in Symbols :
       \E q1, q2 \in Qubits : CallDoubleGate(name, q1, q2, a)

GeneratedLayerCalls ==
  /\ Len(circuit.ops) <= MaxLayerPrefix
  /\ \/ \E name \in Generated("glayer"), s \in SymbolInputs :
          CallGateLayer(name, s, graph)
     \/ \E name \in Generated("dlayer"), a \in Symbols :
          CallDoubleLayer(name, Num(a), graph)

NewLists == \E l \in ListInputs : NewList(l)
SetChoices == \E a \in ArgInputs : set_choice(a)
ListAppends ==
  /\ listWrites < MaxListWrites
  /\ \E loc \in held, e \in ChoiceElems : ListAppend(loc, e)
ListPops ==
  /\ listWrites < MaxListWrites
  /\ \E loc \in held : ListPop(loc)
CallGates == \E attr \in Constructors : CallGate(attr)
WriteNodes ==
  \E j \in 1..Len(nodes), val \in WriteValues :
    \E pos \in WritePositions(heap[nodes[j].loc]) : WriteNode(j, pos, val)
CallRgates == \E seed \in SeedInputs, scale \in AngleScales : CallRgate(seed, scale)
CallRandomTwoQubitGates == \E seed \in SeedInputs : CallRandomTwoQubitGate(seed)

Next == GateCalls
NextLayer == DoubleLayerCalls
NextGateLayer == GateLayerCalls
NextGen == Generates \/ GeneratedGateCalls \/ GeneratedLayerCalls
NextChoice == NewLists \/ SetChoices \/ get_choice \/ ListAppends \/ ListPops
NextTable == CallGates \/ WriteNodes
NextRandom == CallRgates \/ CallRandomTwoQubitGates

\* the module as loaded, and calls of its double-gate appliers
Spec == Init /\ [][Next]_vars

\* the module as loaded, and calls of its two-qubit layers
SpecLayer == InitLayer /\ [][NextLayer]_vars

\* the module as loaded, and calls of its single-qubit layers
SpecGateLayer == InitLayer /\ [][NextGateLayer]_vars

\* the generators called again after load, and calls of what they register
SpecGen == Init /\ [][NextGen]_vars

\* the global choice list, its two accessors, and the caller's writes into
\* the lists it handed over or was handed
SpecChoice == InitModule /\ [][NextChoice]_vars

\* the gate constructors, and writes into the nodes they return
SpecTable == InitModule /\ [][NextTable]_vars

\* the random gates, called in two runs of the program
SpecRandom == InitRandom /\ [][NextRandom]_vars

(***************************************************************************)
(* The claims.                                                             *)
(***************************************************************************)
Applied(name, qubits, theta) == [gate |-> name, qubits |-> qubits, theta |-> theta]

\* the basis change the claims state for label d on qubit q, with the
\* rotation by k * pi/2 for y
BasisChange(d, q, k) ==
  IF d = "x" THEN <<Applied("H", <<q>>, NoTheta)>>
  ELSE IF d = "y" THEN <<Applied("rx", <<q>>, HalfPi(k))>>
  ELSE <<>>

\* the gate applications C1 states for <d1><d2>gate(circuit, q1, q2, a)
DoubleGateSequence(d1, d2, q1, q2, a) ==
  BasisChange(d1, q1, -1) \o BasisChange(d2, q2, -1)
    \o <<Applied("CNOT", <<q1, q2>>, NoTheta), Applied("rz", <<q2>>, Rad(a)),
         Applied("CNOT", <<q1, q2>>, NoTheta)>>
    \o BasisChange(d1, q1, 1) \o BasisChange(d2, q2, 1)

PairOfGate(name) == CHOOSE p \in BasisPairs : GateName(p) = name
PairOfLayer(name) == CHOOSE p \in BasisPairs : DoubleLayerName(p) = name

\* what the last call appended to the circuit
Appended == SubSeq(circuit.ops, Len(call.pre) + 1, Len(circuit.ops))
KeptPrefix == SubSeq(circuit.ops, 1, Len(call.pre)) = call.pre

\* C1: a call of <d1><d2>gate, for d1, d2 in {x, y, z}, appends to the
\* circuit exactly: the basis change on q1, the basis change on q2,
\* CNOT(q1, q2), rz(q2, theta = a), CNOT(q1, q2), the inverse basis change on
\* q1, the inverse basis change on q2; and returns the circuit it was given.
C1_DoubleGateAppends ==
  call.fn \in {GateName(p) : p \in BasisPairs} =>
    LET p == PairOfGate(call.fn)
    IN /\ circuit.ops =
            call.pre \o DoubleGateSequence(p[1], p[2], call.q1, call.q2, call.symbol.v)
       /\ call.ret = circuit.id
       /\ call.raised = "none"

\* C1 witness: yxgate was called on a circuit that already held a gate
C1_Witness ==
  /\ call.fn = "yxgate"
  /\ Len(call.pre) = 1
  /\ Len(circuit.ops) = 8
  /\ circuit.ops[2] = Applied("rx", <<call.q1>>, HalfPi(-1))
  /\ circuit.ops[8] = Applied("H", <<call.q2>>, NoTheta)

\* the pairs u < v of 0..n-1, row by row
RECURSIVE RowsFrom(_, _)
RowsFrom(u, n) ==
  IF u >= n - 1 THEN <<>>
  ELSE [k \in 1..(n - 1 - u) |-> <<u, u + k>>] \o RowsFrom(u + 1, n)

\* the invocations C2 states: one per edge, in order, as <<u, v, angle>>
Invocations(g, n, s) ==
  IF g.isnone THEN [k \in 1..Len(RowsFrom(0, n)) |->
                      <<RowsFrom(0, n)[k][1], RowsFrom(0, n)[k][2], -s * 1 * 2>>]
  ELSE [k \in 1..Len(g.edges) |->
          <<g.edges[k].u, g.edges[k].v,
            -s * (IF g.edges[k].hasw THEN g.edges[k].w ELSE 1) * 2>>]

RECURSIVE InvocationSequence(_, _, _)
InvocationSequence(p, inv, k) ==
  IF k > Len(inv) THEN <<>>
  ELSE DoubleGateSequence(p[1], p[2], inv[k][1], inv[k][2], inv[k][3])
         \o InvocationSequence(p, inv, k + 1)

\* C2: a call of the two-qubit <p>layer with symbol s and graph g (the
\* complete graph over 0..n-1 when g is None) makes one <p>gate invocation
\* per edge (u, v) of g, in g's edge order, on qubits (u, v) with angle
\* -s * w * 2, w the edge's weight or 1; with no edges the circuit is left
\* as it was; on 3 qubits with no graph and s = 1 the invocations are
\* (0,1), (0,2), (1,2), each with angle -2.
C2_DoubleLayerPerEdge ==
  call.fn \in {DoubleLayerName(p) : p \in BasisPairs} =>
    LET p == PairOfLayer(call.fn)
        inv == Invocations(call.g, circuit.nqubits, call.symbol.v)
    IN /\ circuit.ops = call.pre \o InvocationSequence(p, inv, 1)
       /\ call.ret = circuit.id
       /\ call.raised = "none"
       /\ (call.g.isnone /\ circuit.nqubits = 3 /\ call.symbol.v = 1) =>
            inv = << <<0, 1, -2>>, <<0, 2, -2>>, <<1, 2, -2>> >>
       /\ (~call.g.isnone /\ Len(call.g.edges) = 0) => circuit.ops = call.pre

\* C2 witness: zzlayer with s = 1 and no graph was called on a 3-qubit
\* circuit that already held a gate, and appended 3 invocations
C2_Witness ==
  /\ call.fn = "zzlayer"
  /\ call.g.isnone
  /\ call.symbol = Num(1)
  /\ circuit.nqubits = 3
  /\ Len(call.pre) = 1
  /\ Len(circuit.ops) = 10
  /\ circuit.ops[6] = Applied("rz", <<2>>, Rad(-2))

\* C3: a call of Hlayer, rxlayer, rylayer or rzlayer on a circuit of n qubits
\* applies the named gate once to each of the qubits 0, 1, ..., n-1 in this
\* order, with no parameter for H and with theta = 2 * symbol for rx, ry, rz,
\* whatever graph is passed, and returns the circuit it was given.
C3_GateLayerPerQubit ==
  /\ call.fn = "Hlayer" =>
       /\ circuit.ops = call.pre \o [k \in 1..circuit.nqubits |->
                                       Applied("H", <<k - 1>>, NoTheta)]
       /\ call.ret = circuit.id
       /\ call.raised = "none"
  /\ \A gate \in {"rx", "ry", "rz"} :
       (call.fn = gate \o "layer" /\ ~call.symbol.isnone) =>
         /\ circuit.ops = call.pre \o [k \in 1..circuit.nqubits |->
                                         Applied(gate, <<k - 1>>, Rad(2 * call.symbol.v))]
         /\ call.ret = circuit.id
         /\ call.raised = "none"

\* C3 witness: rylayer was called with a symbol and with a graph on a
\* 3-qubit circuit that already held a gate
C3_Witness ==
  /\ call.fn = "rylayer"
  /\ call.symbol = Num(-1)
  /\ ~call.g.isnone
  /\ Len(call.g.edges) = 2
  /\ circuit.nqubits = 3
  /\ Len(call.pre) = 1
  /\ Len(circuit.ops) = 4
  /\ circuit.ops[4] = Applied("ry", <<2>>, Rad(-2))

\* whether the last call passed a rotation parameter to the gates it applied
PassedTheta == \E k \in 1..Len(Appended) : Appended[k].theta # NoTheta

\* C4: Hlayer is marked non-trainable, rxlayer, rylayer and rzlayer are
\* marked trainable, the 9 two-qubit layers are marked trainable, and the
\* flag of a single-qubit layer agrees with the branch it takes when called
\* (trainable exactly when it passes theta = 2 * symbol).
C4_TrainableFlags ==
  /\ namespace["Hlayer"].trainable = FALSE
  /\ \A gate \in {"rx", "ry", "rz"} : namespace[gate \o "layer"].trainable = TRUE
  /\ \A p \in BasisPairs : namespace[DoubleLayerName(p)].trainable = TRUE
  /\ (call.fn \in Named("glayer") /\ call.raised = "none") =>
       namespace[call.fn].trainable = PassedTheta

\* C5: with set_choice and get_choice the only operations on the lists,
\* get_choice returns the list handed to the most recent set_choice,
\* element for element, whatever its length and content.
C5_GetReturnsLastSet ==
  (got.valid /\ ~lastSet.arg.isnone /\ ~lastSet.written) =>
    lists[got.ref] = lists[lastSet.arg.ref]

\* C6: at load, and after set_choice() with no argument from any earlier
\* state of the list, the global list is Hlayer, rxlayer, rzlayer, zzlayer,
\* in this order, and get_choice returns it so.
C6_DefaultChoice ==
  (lastSet.arg.isnone /\ ~lastSet.written) =>
    /\ lists[cset] = <<"Hlayer", "rxlayer", "rzlayer", "zzlayer">>
    /\ got.valid => lists[got.ref] = <<"Hlayer", "rxlayer", "rzlayer", "zzlayer">>

\* C6 witness: set_choice() was called when the global list was a list of
\* the caller holding one element, and get_choice was called after it
C6_Witness ==
  /\ ~lastSet.atload
  /\ lastSet.arg.isnone
  /\ ~lastSet.written
  /\ lastSet.prelen = 1
  /\ got.valid
  /\ got.ref = cset
  /\ Len(lists[cset]) = 4

\* C7: under any sequence of constructor calls and of writes into the
\* matrices of returned nodes, the table matrix of every gate keeps the
\* entries of its literal, no returned node shares storage with the table or
\* with another node, and every constructor call returned the literal's
\* entries under the gate's name.
C7_TableNeverModified ==
  /\ \A k \in TableLocs : heap[k].data = LiteralOf(GateNames[k]).data
  /\ \A j \in 1..Len(nodes) :
       /\ nodes[j].loc \notin TableLocs
       /\ nodes[j].returned.data = LiteralOf(nodes[j].name).data
       /\ \A i \in 1..Len(nodes) : i # j => nodes[i].loc # nodes[j].loc

\* C7 witness: two nodes of one gate were returned and the matrix of the
\* first was overwritten, the second holding the literal's entries
C7_Witness ==
  /\ Len(nodes) = 2
  /\ nodes[1].name = "cnot"
  /\ nodes[2].name = "cnot"
  /\ heap[nodes[1].loc].data[1] = "7"
  /\ heap[nodes[1].loc].data[16] = "7"
  /\ heap[nodes[2].loc].data = cnot_matrix.data

\* C8: a call of rgate or random_two_qubit_gate with a seed returns the same
\* matrix from any two prior states of the random source.
C8_SameSeedSameMatrix ==
  (drawn.fn # "none" /\ ~drawn.seed.isnone) => drawn.a = drawn.b

\* the rewriting C9 states: CNOT.CNOT = I, rz(a).rz(b) = rz(a + b), rz(0) = I
MergesRz(top, op) ==
  /\ top.gate = "rz" /\ op.gate = "rz"
  /\ top.qubits = op.qubits
  /\ top.theta.unit = "rad" /\ op.theta.unit = "rad"
CancelsCnot(top, op) ==
  top.gate = "CNOT" /\ op.gate = "CNOT" /\ top.qubits = op.qubits
IsRzZero(op) == op.gate = "rz" /\ op.theta = Rad(0)

RECURSIVE Reduce(_, _)
Reduce(stack, todo) ==
  IF todo = <<>> THEN stack
  ELSE LET op == Head(todo)
           n == Len(stack)
       IN IF IsRzZero(op) THEN Reduce(stack, Tail(todo))
          ELSE IF n > 0 /\ CancelsCnot(stack[n], op)
            THEN Reduce(SubSeq(stack, 1, n - 1), Tail(todo))
          ELSE IF n > 0 /\ MergesRz(stack[n], op)
            THEN Reduce(SubSeq(stack, 1, n - 1),
                        <<Applied("rz", op.qubits, Rad(stack[n].theta.n + op.theta.n))>>
                          \o Tail(todo))
          ELSE Reduce(Append(stack, op), Tail(todo))

\* a step that calls zzgate with angle -t on the qubits q1 # q2 on which the
\* call before it was zzgate with angle t
ZZRoundTrip ==
  /\ call.fn = "zzgate" /\ call'.fn = "zzgate"
  /\ call'.q1 = call.q1 /\ call'.q2 = call.q2 /\ call.q1 # call.q2
  /\ call'.symbol.v = -call.symbol.v
  /\ call'.pre = circuit.ops

\* C9: zzgate with angle t and then zzgate with angle -t on the same qubits
\* q1 # q2 append CNOT, rz(t), CNOT, CNOT, rz(-t), CNOT, which reduces to
\* the identity: the circuit is back in the state before the two calls.
C9_ZZRoundTrip ==
  [][ZZRoundTrip =>
       /\ circuit'.ops =
            call.pre \o <<Applied("CNOT", <<call.q1, call.q2>>, NoTheta),
                          Applied("rz", <<call.q2>>, Rad(call.symbol.v)),
                          Applied("CNOT", <<call.q1, call.q2>>, NoTheta),
                          Applied("CNOT", <<call.q1, call.q2>>, NoTheta),
                          Applied("rz", <<call.q2>>, Rad(-call.symbol.v)),
                          Applied("CNOT", <<call.q1, call.q2>>, NoTheta)>>
       /\ Reduce(<<>>, SubSeq(circuit'.ops, Len(call.pre) + 1, Len(circuit'.ops))) = <<>>
       /\ Reduce(<<>>, circuit'.ops) = Reduce(<<>>, call.pre)]_vars

\* C9 witness: zzgate(t) and then zzgate(-t) were called on qubits 2, 0 of a
\* fresh circuit
C9_Witness ==
  /\ call.fn = "zzgate"
  /\ call.q1 = 2 /\ call.q2 = 0
  /\ Len(call.pre) = 3
  /\ Len(circuit.ops) = 6
  /\ circuit.ops[1] = Applied("CNOT", <<2, 0>>, NoTheta)
  /\ circuit.ops[2] = Applied("rz", <<0>>, Rad(1))
  /\ circuit.ops[5] = Applied("rz", <<0>>, Rad(-1))

\* C10: no applier or two-qubit layer is registered for a label outside
\* {x, y, z}: generating one fails and registers nothing.
C10_UnknownLabelRejected ==
  \A k \in Named("gate") \cup Named("dlayer") :
    namespace[k].gates[1] \in Basis /\ namespace[k].gates[2] \in Basis
====
